---------------------------- MODULE Spec2Model ----------------------------
(***************************************************************************)
(* A model of miku/ntto: the in-process conversion pipeline of nttoldj     *)
(* (Convert, Worker, the triple writers), the -j pipeline of cmd/ntto      *)
(* (Worker, Marshaller, main) and the pure functions of the ntto package   *)
(* that both rest on.                                                      *)
(*                                                                         *)
(* A Go string is a sequence of one-character strings, so that prefix      *)
(* tests, splitting, trimming and replacement are computed character by    *)
(* character as the strings package computes them.  Input lines are        *)
(* shorter than the 4096 byte buffer of bufio.Reader, so ReadLine returns  *)
(* each of them whole.                                                     *)
(***************************************************************************)
EXTENDS Integers, Sequences, FiniteSets, TLC

(***************************************************************************)
(* Bounds of the model.                                                    *)
(***************************************************************************)
\* the longest input a run reads, in lines
MaxLines == 3
\* the largest worker count (runtime.NumCPU(), or the -w flag)
MaxWorkers == 2
\* how many records the bufio.Writer of cmd/ntto holds before it flushes
BufRecords == 1
\* the longest prefix of a rule drawn for a call of applyRules, in characters
MaxPrefix == 2
\* the longest field drawn for a call of applyRules, in characters
MaxField == 3

\* the longest rule text drawn for a call of ParseRules, in lines
MaxRuleLines == 3
\* the longest line drawn for a call of ParseNTriple, in words
MaxWords == 5
\* the longest rule table drawn for a call of PartitionRules
MaxTable == 3
\* the largest count drawn for a call of PartitionRules
MaxCount == 3

(***************************************************************************)
(* package strings                                                         *)
(***************************************************************************)
IsSpace(c) == c \in {" ", "\t"}

Drop(s, n) == SubSeq(s, n + 1, Len(s))

Take(s, n) == SubSeq(s, 1, n)

HasPrefix(s, prefix) ==
    /\ Len(prefix) <= Len(s)
    /\ Take(s, Len(prefix)) = prefix

HasSuffix(s, suffix) ==
    /\ Len(suffix) <= Len(s)
    /\ Drop(s, Len(s) - Len(suffix)) = suffix

\* the index of the first occurrence of sep in s, 0 when there is none
RECURSIVE IndexFrom(_, _, _)
IndexFrom(s, sep, i) ==
    IF i + Len(sep) - 1 > Len(s) THEN 0
    ELSE IF SubSeq(s, i, i + Len(sep) - 1) = sep THEN i
    ELSE IndexFrom(s, sep, i + 1)

Index(s, sep) == IndexFrom(s, sep, 1)

Contains(s, sub) == Index(s, sub) > 0

RECURSIVE TrimLeft(_, _)
TrimLeft(s, cutset) ==
    IF s # <<>> /\ s[1] \in cutset THEN TrimLeft(Drop(s, 1), cutset) ELSE s

RECURSIVE TrimRight(_, _)
TrimRight(s, cutset) ==
    IF s # <<>> /\ s[Len(s)] \in cutset
    THEN TrimRight(Take(s, Len(s) - 1), cutset)
    ELSE s

\* strings.Trim(s, cutset), the cutset given as a set of characters
Trim(s, cutset) == TrimRight(TrimLeft(s, cutset), cutset)

TrimSpace(s) == Trim(s, {" ", "\t"})

\* strings.Fields: the maximal runs of non-space characters
RECURSIVE FieldsFrom(_, _)
FieldsFrom(s, word) ==
    IF s = <<>> THEN (IF word = <<>> THEN <<>> ELSE <<word>>)
    ELSE IF IsSpace(s[1])
         THEN (IF word = <<>> THEN <<>> ELSE <<word>>) \o FieldsFrom(Drop(s, 1), <<>>)
         ELSE FieldsFrom(Drop(s, 1), Append(word, s[1]))

Fields(s) == FieldsFrom(s, <<>>)

\* strings.Split(s, sep) for a non-empty sep
RECURSIVE Split(_, _)
Split(s, sep) ==
    LET i == Index(s, sep) IN
    IF i = 0 THEN <<s>>
    ELSE <<Take(s, i - 1)>> \o Split(Drop(s, i + Len(sep) - 1), sep)

RECURSIVE Join(_, _)
Join(parts, sep) ==
    IF parts = <<>> THEN <<>>
    ELSE IF Len(parts) = 1 THEN parts[1]
    ELSE parts[1] \o sep \o Join(Drop(parts, 1), sep)

\* strings.Replace(s, old, new, 1): the first occurrence only
ReplaceFirst(s, old, new) ==
    LET i == Index(s, old) IN
    IF i = 0 THEN s ELSE Take(s, i - 1) \o new \o Drop(s, i + Len(old) - 1)

\* strings.Replace(s, old, new, -1) for a non-empty old: every non-overlapping
\* occurrence, leftmost first
Replace(s, old, new) == Join(Split(s, old), new)

(***************************************************************************)
(* nttoldj.go: the pure functions of the worker                            *)
(***************************************************************************)
isURIRef(s) == HasPrefix(s, <<"<">>) /\ HasSuffix(s, <<">">>)

isLiteral(s) == HasPrefix(s, <<"\"">>)

isLiteralLanguage(s, language) ==
    IF ~Contains(s, <<"@">>) THEN TRUE
    ELSE Contains(s, <<"@">> \o language)

\* if language != "" && !isLiteralLanguage(o, language) { continue }: whether
\* the worker skips the triple with the object o
languageSkips(o, language) ==
    language # <<>> /\ ~isLiteralLanguage(o, language)

\* parts[:len(parts)-1] joined by "": s without its last sep and what follows it
DropLastPart(s, sep) ==
    LET parts == Split(s, sep) IN Join(Take(parts, Len(parts) - 1), <<>>)

stripChars(s) ==
    IF isURIRef(s) THEN Trim(s, {"<", ">"})
    ELSE IF isLiteral(s)
    THEN LET s1 == IF Contains(s, <<"@">>) THEN DropLastPart(s, <<"@">>) ELSE s
             s2 == IF Contains(s1, <<"^", "^">>) THEN DropLastPart(s1, <<"^", "^">>) ELSE s1
         IN  Trim(s2, {"\""})
    ELSE s

\* an iteration that writes the shortcut without the ":" after it
applyRuleNoColon(s, rule) ==
    IF HasPrefix(s, rule.Prefix)
    THEN Replace(s, rule.Prefix, rule.Shortcut)
    ELSE s

\* one iteration of the loop of applyRules
applyRule(s, rule) ==
    IF HasPrefix(s, rule.Prefix)
    THEN Replace(s, rule.Prefix, rule.Shortcut \o <<":">>)
    ELSE s

\* an applyRules that walks the table from its end
RECURSIVE applyRulesReversed(_, _)
applyRulesReversed(s, rules) ==
    IF rules = <<>> THEN s
    ELSE applyRulesReversed(applyRule(s, rules[Len(rules)]), Take(rules, Len(rules) - 1))

RECURSIVE applyRules(_, _)
applyRules(s, rules) ==
    IF rules = <<>> THEN s
    ELSE applyRules(applyRule(s, rules[1]), Drop(rules, 1))

\* the fields the worker of nttoldj takes from a line that is no comment
ldjFields(line) ==
    LET words == Fields(TrimSpace(line)) IN
    IF Len(words) < 3 THEN [s |-> <<>>, p |-> <<>>, o |-> <<>>]
    ELSE IF Len(words) <= 4 THEN [s |-> words[1], p |-> words[2], o |-> words[3]]
    ELSE [s |-> words[1], p |-> words[2],
          o |-> Join(SubSeq(words, 3, Len(words) - 1), <<" ">>)]

\* the triple the worker of nttoldj makes of a line before it applies the
\* rules: the fields, each through stripChars
ldjTriple(line) ==
    LET f == ldjFields(line)
    IN  [s |-> stripChars(f.s), p |-> stripChars(f.p), o |-> stripChars(f.o)]

(***************************************************************************)
(* common.go: package ntto                                                 *)
(***************************************************************************)
IsLiteral(s) == HasPrefix(s, <<"\"">>)

IsLiteralLanguage(s, language) ==
    IF ~IsLiteral(s) THEN FALSE
    ELSE IF ~Contains(s, <<"@">>) THEN TRUE
    ELSE Contains(s, <<"@">> \o language)

\* a ParseNTriple that wants a fourth word
ParseNTripleFour(l) ==
    LET words == Fields(TrimSpace(l))
        cut == {"<", ">", "\""}
    IN  IF Len(words) < 4 THEN [err |-> TRUE, s |-> <<>>, p |-> <<>>, o |-> <<>>]
        ELSE [err |-> FALSE, s |-> Trim(words[1], cut), p |-> Trim(words[2], cut),
              o |-> Trim(words[3], cut)]

\* the result of ParseNTriple: err tells whether the error is non-nil, and
\* with it the triple is nil
ParseNTriple(l) ==
    LET line == TrimSpace(l)
        words == Fields(line)
        o == IF Len(words) <= 4 THEN words[3]
             ELSE IF HasSuffix(line, <<".">>)
                  THEN Join(SubSeq(words, 3, Len(words) - 1), <<" ">>)
                  ELSE Join(SubSeq(words, 3, Len(words)), <<" ">>)
        cut == {"<", ">", "\""}
    IN  IF Len(words) < 3 THEN [err |-> TRUE, s |-> <<>>, p |-> <<>>, o |-> <<>>]
        ELSE [err |-> FALSE, s |-> Trim(words[1], cut), p |-> Trim(words[2], cut),
              o |-> Trim(o, cut)]

\* no error
NoError == [nil |-> TRUE, line |-> <<>>]

\* a loop over the lines of a rule text that goes on after a broken line
RECURSIVE parseLinesOn(_, _, _)
parseLinesOn(lines, slashes, rules) ==
    IF lines = <<>> THEN [rules |-> rules, err |-> NoError]
    ELSE LET line == TrimSpace(lines[1])
             fields == Fields(line)
         IN  IF Len(line) = 0 \/ HasPrefix(line, <<"#">>)
                \/ (slashes /\ HasPrefix(line, <<"/", "/">>))
             THEN parseLinesOn(Drop(lines, 1), slashes, rules)
             ELSE IF Len(fields) < 2
             THEN [rules |-> parseLinesOn(Drop(lines, 1), slashes, rules).rules,
                   err |-> [nil |-> FALSE, line |-> line]]
             ELSE parseLinesOn(Drop(lines, 1), slashes,
                               Append(rules, [Prefix |-> fields[2],
                                              Shortcut |-> fields[1]]))

\* the loop of ParseRules and of parseRules over the lines of the text;
\* slashes tells whether a line that begins with // is a comment too, as in
\* ParseRules.  The error carries the line, trimmed.
RECURSIVE parseLines(_, _, _)
parseLines(lines, slashes, rules) ==
    IF lines = <<>> THEN [rules |-> rules, err |-> NoError]
    ELSE LET line == TrimSpace(lines[1])
             fields == Fields(line)
         IN  IF Len(line) = 0 \/ HasPrefix(line, <<"#">>)
                \/ (slashes /\ HasPrefix(line, <<"/", "/">>))
             THEN parseLines(Drop(lines, 1), slashes, rules)
             ELSE IF Len(fields) < 2
             THEN [rules |-> rules, err |-> [nil |-> FALSE, line |-> line]]
             ELSE parseLines(Drop(lines, 1), slashes,
                             Append(rules, [Prefix |-> fields[2],
                                            Shortcut |-> fields[1]]))

\* ParseRules of package ntto
ParseRules(s) == parseLines(Split(s, <<"\n">>), TRUE, <<>>)

\* parseRules of nttoldj
parseRules(s) == parseLines(Split(s, <<"\n">>), FALSE, <<>>)

Min(a, b) == IF a <= b THEN a ELSE b

\* a choice of partition that puts every rule into the first one
PartitionOfFirst(i, count) == 0

\* p := i % count, for the rule at index i, counted from 0
PartitionOf(i, count) == i % count

\* the loop of PartitionRules from the rule at index i on, counted from 1
RECURSIVE partitionLoop(_, _, _, _)
partitionLoop(rules, i, count, partitions) ==
    IF i > Len(rules) THEN partitions
    ELSE partitionLoop(rules, i + 1, count,
             [partitions EXCEPT ![PartitionOf(i - 1, count) + 1] =
                                    Append(@, rules[i])])

PartitionRules(rules, count) ==
    LET c == Min(Len(rules), count)
    IN  partitionLoop(rules, 1, c, [p \in 1..c |-> <<>>])

\* the characters of the runs, in the order of their bytes
ByteOrder ==
    << "\t", " ", "\"", "#", "'", "-", ".", "/", ":", ";", "<", "=",
       ">", "@", "A", "C", "G", "L", "N", "U", "^", "_", "a", "b",
       "c", "d", "e", "f", "g", "h", "i", "j", "k", "l", "m", "n",
       "o", "p", "q", "r", "s", "t", "u", "v", "w", "x", "y", "z",
       "|" >>

ByteOf(c) == CHOOSE i \in 1..Len(ByteOrder) : ByteOrder[i] = c

\* s < t for two strings: byte by byte, a proper prefix first
RECURSIVE StringLess(_, _)
StringLess(s, t) ==
    IF t = <<>> THEN FALSE
    ELSE IF s = <<>> THEN TRUE
    ELSE IF s[1] # t[1] THEN ByteOf(s[1]) < ByteOf(t[1])
    ELSE StringLess(Tail(s), Tail(t))

\* x put into the sorted list of strings a
RECURSIVE InsertString(_, _)
InsertString(a, x) ==
    IF a = <<>> THEN <<x>>
    ELSE IF StringLess(x, a[1]) THEN <<x>> \o a
    ELSE <<a[1]>> \o InsertString(Tail(a), x)

\* a list of strings left as it is
Unsorted(a) == a

\* sort.Strings: the strings of a in increasing order
RECURSIVE SortStrings(_)
SortStrings(a) ==
    IF a = <<>> THEN <<>>
    ELSE InsertString(SortStrings(Tail(a)), a[1])

\* Rule.String: "%s\t%s" of the shortcut and the prefix
RuleString(r) == r.Shortcut \o <<"\t">> \o r.Prefix

DumpRules(rules) ==
    LET formatted == [i \in 1..Len(rules) |-> RuleString(rules[i])]
    IN  Join(SortStrings(formatted), <<"\n">>)

\* the default of the -n flag of ntto, the token for an empty replacement
NullToken == <<"<", "N", "U", "L", "L", ">">>

\* "LANG=C perl -lnpe '", what every stage begins with
PerlStage ==
    <<"L", "A", "N", "G", "=", "C", " ", "p", "e", "r", "l", " ", "-", "l", "n", "p", "e", " ", "'">>

\* "s@%s@@g" for a rule whose shortcut is the null token, "s@%s@%s:@g" for
\* any other rule
SedCommand(rule, null) ==
    IF rule.Shortcut = null
    THEN <<"s", "@">> \o rule.Prefix \o <<"@", "@", "g">>
    ELSE <<"s", "@">> \o rule.Prefix \o <<"@">> \o rule.Shortcut
             \o <<":", "@", "g">>

\* a test that takes every stage for the first
AnyStage(i) == TRUE

\* i == 0, for the partition at index i, counted from 0
FirstStage(i) == i = 0

\* the command of the partition at index i, counted from 0
SedStage(partition, i, in, null) ==
    LET commands == [j \in 1..Len(partition) |-> SedCommand(partition[j], null)]
    IN  IF FirstStage(i) /\ in # <<>>
        THEN PerlStage \o Join(commands, <<";", " ">>)
                 \o <<"'", " ", "<", " ", "'">> \o in \o <<"'">>
        ELSE PerlStage \o Join(commands, <<";", " ">>) \o <<"'">>

SedifyNull(rules, p, in, null) ==
    LET partitions == PartitionRules(rules, p)
    IN  Join([i \in 1..Len(partitions) |->
                 SedStage(partitions[i], i - 1, in, null)], <<" ", "|", " ">>)

Sedify(rules, p, in) == SedifyNull(rules, p, in, NullToken)

(***************************************************************************)
(* The runs that are modelled.                                             *)
(***************************************************************************)
\* the format selectors a caller may pass; nt is none that Convert knows
Formats == {"json", "xml", "tsv", "nt"}

\* the rewrite table of the modelled runs of nttoldj
Rules == <<[Prefix |-> <<"s">>, Shortcut |-> <<"a">>]>>

LineTriple == <<"s", " ", "p", " ", "o", " ", ".">>
LineShort == <<"a">>
LineEmpty == <<>>
LineComment == <<"#", "c">>

\* the lines an input is made of
Lines == {LineTriple, LineShort, LineEmpty, LineComment}

\* no triple: the zero value of a triple variable, and the nil *Triple
NoTriple == [line |-> 0, by |-> 0, nil |-> TRUE, s |-> <<>>, p |-> <<>>, o |-> <<>>]

VARIABLES
    prog,        \* "nttoldj" or "ntto": the program that runs
    numWorkers,  \* runtime.NumCPU() (nttoldj), *numWorkers (ntto)
    ignore,      \* the -i flag
    format,      \* the -f flag of nttoldj
    language,    \* the -l flag of nttoldj; the runs modelled here set none
    pc,          \* where the main goroutine stands
    err,         \* the error Convert returns
    status,      \* "running", or how the process ended
    input,       \* the lines ReadLine has returned so far
    readErr,     \* whether the read loop ended on an error, not on EOF
    n,           \* the counter of the kill loop of Convert
    wpc,         \* where each worker stands
    wline,       \* the index in input of the line each worker holds
    wout,        \* the triple each worker is about to send
    qclosed,     \* close(queue) was executed
    tclosed,     \* close(triples), close(results) was executed
    wg,          \* the WaitGroup counter of ntto
    mpc,         \* where the writer goroutine stands
    mheld,       \* the triple the writer received last
    buf,         \* the records buffered in the bufio.Writer of ntto
    stdout,      \* the records written to standard output
    stderr,      \* the lines reported as broken on standard error, by index
    args,        \* the arguments of a call of a pure function
    ret,         \* what the call returned
    ret2         \* what a second call, on the value returned, returned

vars == <<prog, numWorkers, ignore, format, language, pc, err, status, input,
          readErr, n, wpc, wline, wout, qclosed, tclosed, wg, mpc, mheld, buf,
          stdout, stderr, args, ret, ret2>>

config == <<prog, numWorkers, ignore, format, language>>

call == <<args, ret, ret2>>

pipeline == <<pc, err, status, input, readErr, n, wpc, wline, wout, qclosed,
              tclosed, wg, mpc, mheld, buf, stdout, stderr>>

Workers == 1..numWorkers

Running == status = "running"

\* no goroutine runs yet, nothing was read or written
InitPipeline ==
    /\ pc = "start"
    /\ err = "nil"
    /\ status = "running"
    /\ input = <<>>
    /\ readErr = FALSE
    /\ n = 0
    /\ wpc = [w \in Workers |-> "off"]
    /\ wline = [w \in Workers |-> 0]
    /\ wout = [w \in Workers |-> NoTriple]
    /\ qclosed = FALSE
    /\ tclosed = FALSE
    /\ wg = 0
    /\ mpc = "off"
    /\ mheld = NoTriple
    /\ buf = <<>>
    /\ stdout = <<>>
    /\ stderr = {}

\* no call of a pure function is observed
NoCall == [done |-> FALSE, val |-> <<>>]

Init ==
    /\ prog \in {"nttoldj", "ntto"}
    /\ numWorkers \in 1..MaxWorkers
    /\ ignore \in BOOLEAN
    /\ format \in (IF prog = "nttoldj" THEN Formats ELSE {"json"})
    /\ language = <<>>
    /\ InitPipeline
    /\ args = <<>>
    /\ ret = NoCall
    /\ ret2 = NoCall

(***************************************************************************)
(* The arguments of a call of applyRules(s, rules): a field and a table    *)
(* of two rules, drawn over a small alphabet, and the table                *)
(* [a -> http://x/y/, b -> http://x/] with the field http://x/y/Foo, in    *)
(* both orders.                                                            *)
(***************************************************************************)
SeqsUpTo(S, k) == UNION {[1..m -> S] : m \in 0..k}

\* parseRules takes a rule from a line of two fields: no prefix and no
\* shortcut is empty
RulePrefixes == SeqsUpTo({"a", "/"}, MaxPrefix) \ {<<>>}

RuleShortcuts == {<<"a">>, <<"b">>}

RuleSet == [Prefix : RulePrefixes, Shortcut : RuleShortcuts]

FieldSet == SeqsUpTo({"a", "/"}, MaxField)

RuleXY == [Prefix |-> <<"h","t","t","p",":","/","/","x","/","y","/">>,
           Shortcut |-> <<"a">>]

RuleX == [Prefix |-> <<"h","t","t","p",":","/","/","x","/">>,
          Shortcut |-> <<"b">>]

FieldFoo == <<"h","t","t","p",":","/","/","x","/","y","/","F","o","o">>

RuleNull == [Prefix |-> <<"h","t","t","p",":","/","/","x","/">>,
             Shortcut |-> NullToken]

FieldXFoo == <<"h","t","t","p",":","/","/","x","/","F","o","o">>

ApplyRulesCalls ==
    [s : FieldSet, rules : {<<r1, r2>> : r1 \in RuleSet, r2 \in RuleSet}]
        \cup [s : {FieldFoo}, rules : {<<RuleXY, RuleX>>, <<RuleX, RuleXY>>}]
        \cup [s : {FieldXFoo}, rules : {<<RuleNull, RuleXY>>}]

\* a call of applyRules with no pipeline around it
InitRules ==
    /\ prog = "applyRules"
    /\ numWorkers = 0
    /\ ignore = FALSE
    /\ format = "json"
    /\ language = <<>>
    /\ InitPipeline
    /\ args \in ApplyRulesCalls
    /\ ret = NoCall
    /\ ret2 = NoCall

(***************************************************************************)
(* nttoldj: Convert, run by the main goroutine                             *)
(***************************************************************************)
\* a Convert that takes every selector for a format it knows
KnownFormatAny(f) == f \in Formats

\* the chain of format tests of Convert
KnownFormat(f) == f \in {"json", "xml", "tsv"}

\* the writer for the format is started, then the workers; an unknown format
\* returns an error before either
ConvertStart ==
    /\ Running /\ prog = "nttoldj" /\ pc = "start"
    /\ IF KnownFormat(format)
       THEN /\ mpc' = "recv"
            /\ wpc' = [w \in Workers |-> "recv"]
            /\ pc' = "open"
            /\ err' = err
       ELSE /\ err' = "unknown format"
            /\ pc' = "return"
            /\ UNCHANGED <<mpc, wpc>>
    /\ UNCHANGED <<config, call, status, input, readErr, n, wline, wout, qclosed,
                   tclosed, wg, mheld, buf, stdout, stderr>>

\* os.Stdin, or os.Open without an error
ConvertOpen ==
    /\ Running /\ prog = "nttoldj" /\ pc = "open"
    /\ pc' = "read"
    /\ UNCHANGED <<config, call, err, status, input, readErr, n, wpc, wline, wout,
                   qclosed, tclosed, wg, mpc, mheld, buf, stdout, stderr>>

\* os.Open returns an error, and Convert returns it
ConvertOpenFail ==
    /\ Running /\ prog = "nttoldj" /\ pc = "open"
    /\ err' = "open"
    /\ pc' = "return"
    /\ UNCHANGED <<config, call, status, input, readErr, n, wpc, wline, wout,
                   qclosed, tclosed, wg, mpc, mheld, buf, stdout, stderr>>

\* reader.ReadLine() returns the next line of the input
ConvertRead ==
    /\ Running /\ prog = "nttoldj" /\ pc = "read"
    /\ Len(input) < MaxLines
    /\ \E l \in Lines : input' = Append(input, l)
    /\ pc' = "send"
    /\ UNCHANGED <<config, call, err, status, readErr, n, wpc, wline, wout, qclosed,
                   tclosed, wg, mpc, mheld, buf, stdout, stderr>>

\* reader.ReadLine() returns io.EOF: break
ConvertReadEnd ==
    /\ Running /\ prog = "nttoldj" /\ pc = "read"
    /\ pc' = "kill"
    /\ UNCHANGED <<config, call, err, status, input, readErr, n, wpc, wline, wout, qclosed,
                   tclosed, wg, mpc, mheld, buf, stdout, stderr>>

\* reader.ReadLine() returns an error that is not io.EOF: break, as on io.EOF
ConvertReadFail ==
    /\ Running /\ prog = "nttoldj" /\ pc = "read"
    /\ readErr' = TRUE
    /\ pc' = "kill"
    /\ UNCHANGED <<config, call, err, status, input, n, wpc, wline, wout, qclosed,
                   tclosed, wg, mpc, mheld, buf, stdout, stderr>>

\* queue <- &line meets line = <-queue of worker w
ConvertSend(w) ==
    /\ Running /\ prog = "nttoldj" /\ pc = "send"
    /\ wpc[w] = "recv"
    /\ wpc' = [wpc EXCEPT ![w] = "proc"]
    /\ wline' = [wline EXCEPT ![w] = Len(input)]
    /\ pc' = "read"
    /\ UNCHANGED <<config, call, err, status, input, readErr, n, wout, qclosed,
                   tclosed, wg, mpc, mheld, buf, stdout, stderr>>

\* a kill loop that sends one nil too few
KillMoreShort == n < numWorkers - 1

\* the kill loop runs while n < runtime.NumCPU()
\* a loop that sends one nil more than there are workers
KillMoreLong == n <= numWorkers

KillMore == n < numWorkers

\* queue <- nil meets line = <-queue of worker w, which breaks
ConvertKill(w) ==
    /\ Running /\ prog = "nttoldj" /\ pc = "kill"
    /\ KillMore
    /\ wpc[w] = "recv"
    /\ wpc' = [wpc EXCEPT ![w] = "done"]
    /\ n' = n + 1
    /\ UNCHANGED <<config, call, pc, err, status, input, readErr, wline, wout,
                   qclosed, tclosed, wg, mpc, mheld, buf, stdout, stderr>>

\* close(triples); return
ConvertClose ==
    /\ Running /\ prog = "nttoldj" /\ pc = "kill"
    /\ ~KillMore
    /\ tclosed' = TRUE
    /\ pc' = "return"
    /\ UNCHANGED <<config, call, err, status, input, readErr, n, wpc, wline, wout,
                   qclosed, wg, mpc, mheld, buf, stdout, stderr>>

\* main of nttoldj after Convert: os.Exit(1) on an error, else main returns
\* and the process ends, whatever the other goroutines are doing
LdjExit ==
    /\ Running /\ prog = "nttoldj" /\ pc = "return"
    /\ status' = IF err = "nil" THEN "exit0" ELSE "exit1"
    /\ UNCHANGED <<config, call, pc, err, input, readErr, n, wpc, wline, wout,
                   qclosed, tclosed, wg, mpc, mheld, buf, stdout, stderr>>

(***************************************************************************)
(* nttoldj: Worker and the triple writers                                  *)
(***************************************************************************)
\* a test of the flag that is inverted
StrictInverted == ignore

\* if !ignore (nttoldj), if !*ignore (ntto): an error ends the process
Strict == ~ignore

\* the body of the loop of Worker for the line it received
LdjWork(w) ==
    LET line == input[wline[w]]
        trimmed == TrimSpace(line)
        words == Fields(trimmed)
        f == ldjFields(line)
        t == [line |-> wline[w], by |-> w, nil |-> FALSE,
              s |-> applyRules(stripChars(f.s), Rules),
              p |-> applyRules(stripChars(f.p), Rules),
              o |-> applyRules(stripChars(f.o), Rules)]
    IN
    /\ Running /\ prog = "nttoldj" /\ wpc[w] = "proc"
    /\ IF HasPrefix(trimmed, <<"#">>)
       THEN /\ wpc' = [wpc EXCEPT ![w] = "recv"]
            /\ UNCHANGED <<status, wout, stderr>>
       ELSE IF Len(words) < 3 /\ Strict
       THEN /\ stderr' = stderr \cup {wline[w]}
            /\ status' = "exit1"
            /\ UNCHANGED <<wpc, wout>>
       ELSE /\ stderr' = IF Len(words) < 3 THEN stderr \cup {wline[w]} ELSE stderr
            /\ status' = status
            /\ IF languageSkips(f.o, language)
               THEN /\ wpc' = [wpc EXCEPT ![w] = "recv"]
                    /\ wout' = wout
               ELSE /\ wpc' = [wpc EXCEPT ![w] = "send"]
                    /\ wout' = [wout EXCEPT ![w] = t]
    /\ wline' = [wline EXCEPT ![w] = 0]
    /\ UNCHANGED <<config, call, pc, err, input, readErr, n, qclosed, tclosed,
                   wg, mpc, mheld, buf, stdout>>

\* triples <- &Triple{...} of worker w meets the receive of the writer's range
LdjSend(w) ==
    /\ Running /\ prog = "nttoldj"
    /\ wpc[w] = "send" /\ mpc = "recv" /\ ~tclosed
    /\ mheld' = wout[w]
    /\ mpc' = "write"
    /\ wpc' = [wpc EXCEPT ![w] = "recv"]
    /\ wout' = [wout EXCEPT ![w] = NoTriple]
    /\ UNCHANGED <<config, call, pc, err, status, input, readErr, n, wline,
                   qclosed, tclosed, wg, buf, stdout, stderr>>

\* the record a triple writer prints for a triple, by format
LdjRecord(t) == [line |-> t.line, by |-> t.by, out |-> <<format, t.s, t.p, t.o>>]

\* a writer that puts each record in front of what it has printed
LdjWriteInFront ==
    /\ Running /\ prog = "nttoldj" /\ mpc = "write"
    /\ stdout' = <<LdjRecord(mheld)>> \o stdout
    /\ mpc' = "recv"
    /\ mheld' = NoTriple
    /\ UNCHANGED <<config, call, pc, err, status, input, readErr, n, wpc, wline,
                   wout, qclosed, tclosed, wg, buf, stderr>>

\* JsonTripleWriter, XmlTripleWriter, TSVTripleWriter: print the triple
LdjWrite ==
    /\ Running /\ prog = "nttoldj" /\ mpc = "write"
    /\ stdout' = Append(stdout, LdjRecord(mheld))
    /\ mpc' = "recv"
    /\ mheld' = NoTriple
    /\ UNCHANGED <<config, call, pc, err, status, input, readErr, n, wpc, wline,
                   wout, qclosed, tclosed, wg, buf, stderr>>

\* the range over the closed triples channel ends
LdjWriterEnd ==
    /\ Running /\ prog = "nttoldj" /\ mpc = "recv" /\ tclosed
    /\ mpc' = "done"
    /\ UNCHANGED <<config, call, pc, err, status, input, readErr, n, wpc, wline,
                   wout, qclosed, tclosed, wg, mheld, buf, stdout, stderr>>

(***************************************************************************)
(* cmd/ntto: main with -j, run by the main goroutine                       *)
(***************************************************************************)
\* os.Stdin, or os.Open without an error
NttoOpen ==
    /\ Running /\ prog = "ntto" /\ pc = "start"
    /\ pc' = "go"
    /\ UNCHANGED <<config, call, err, status, input, readErr, n, wpc, wline, wout,
                   qclosed, tclosed, wg, mpc, mheld, buf, stdout, stderr>>

\* os.Open returns an error: log.Fatalln
NttoOpenFail ==
    /\ Running /\ prog = "ntto" /\ pc = "start"
    /\ err' = "open"
    /\ status' = "exit1"
    /\ UNCHANGED <<config, call, pc, input, readErr, n, wpc, wline, wout,
                   qclosed, tclosed, wg, mpc, mheld, buf, stdout, stderr>>

\* go Marshaller(...), then wg.Add(1) and go Worker(...) for each worker
NttoStart ==
    /\ Running /\ prog = "ntto" /\ pc = "go"
    /\ mpc' = "recv"
    /\ wpc' = [w \in Workers |-> "recv"]
    /\ wg' = numWorkers
    /\ pc' = "read"
    /\ UNCHANGED <<config, call, err, status, input, readErr, n, wline, wout,
                   qclosed, tclosed, mheld, buf, stdout, stderr>>

\* reader.ReadLine() returns the next line of the input
NttoRead ==
    /\ Running /\ prog = "ntto" /\ pc = "read"
    /\ Len(input) < MaxLines
    /\ \E l \in Lines : input' = Append(input, l)
    /\ pc' = "send"
    /\ UNCHANGED <<config, call, err, status, readErr, n, wpc, wline, wout, qclosed,
                   tclosed, wg, mpc, mheld, buf, stdout, stderr>>

\* reader.ReadLine() returns io.EOF: break
NttoReadEnd ==
    /\ Running /\ prog = "ntto" /\ pc = "read"
    /\ pc' = "closeq"
    /\ UNCHANGED <<config, call, err, status, input, readErr, n, wpc, wline, wout, qclosed,
                   tclosed, wg, mpc, mheld, buf, stdout, stderr>>

\* reader.ReadLine() returns an error that is not io.EOF: break, as on io.EOF
NttoReadFail ==
    /\ Running /\ prog = "ntto" /\ pc = "read"
    /\ readErr' = TRUE
    /\ pc' = "closeq"
    /\ UNCHANGED <<config, call, err, status, input, n, wpc, wline, wout, qclosed,
                   tclosed, wg, mpc, mheld, buf, stdout, stderr>>

\* a send on a queue with room: the reader goes on without a worker
NttoSendAhead(w) ==
    /\ Running /\ prog = "ntto" /\ pc = "send"
    /\ pc' = "read"
    /\ UNCHANGED <<config, call, err, status, input, readErr, n, wpc, wline, wout,
                   qclosed, tclosed, wg, mpc, mheld, buf, stdout, stderr>>

\* queue <- &line meets the receive of the range of worker w
NttoSend(w) ==
    /\ Running /\ prog = "ntto" /\ pc = "send"
    /\ wpc[w] = "recv"
    /\ wpc' = [wpc EXCEPT ![w] = "proc"]
    /\ wline' = [wline EXCEPT ![w] = Len(input)]
    /\ pc' = "read"
    /\ UNCHANGED <<config, call, err, status, input, readErr, n, wout, qclosed,
                   tclosed, wg, mpc, mheld, buf, stdout, stderr>>

\* close(queue)
NttoCloseQueue ==
    /\ Running /\ prog = "ntto" /\ pc = "closeq"
    /\ qclosed' = TRUE
    /\ pc' = "wait"
    /\ UNCHANGED <<config, call, err, status, input, readErr, n, wpc, wline, wout,
                   tclosed, wg, mpc, mheld, buf, stdout, stderr>>

\* a Wait that returns whatever the counter is
WaitOverAtOnce == TRUE

\* wg.Wait() returns when the counter is zero
WaitOver == wg = 0

NttoWait ==
    /\ Running /\ prog = "ntto" /\ pc = "wait"
    /\ WaitOver
    /\ pc' = "closeres"
    /\ UNCHANGED <<config, call, err, status, input, readErr, n, wpc, wline, wout,
                   qclosed, tclosed, wg, mpc, mheld, buf, stdout, stderr>>

\* close(results)
NttoCloseResults ==
    /\ Running /\ prog = "ntto" /\ pc = "closeres"
    /\ tclosed' = TRUE
    /\ pc' = "select"
    /\ UNCHANGED <<config, call, err, status, input, readErr, n, wpc, wline, wout,
                   qclosed, wg, mpc, mheld, buf, stdout, stderr>>

\* select, case <-time.After(1e9): the second passes before done is sent
NttoTimeout ==
    /\ Running /\ prog = "ntto" /\ pc = "select"
    /\ pc' = "return"
    /\ UNCHANGED <<config, call, err, status, input, readErr, n, wpc, wline, wout,
                   qclosed, tclosed, wg, mpc, mheld, buf, stdout, stderr>>

\* select, case <-done: meets done <- true of Marshaller
NttoDone ==
    /\ Running /\ prog = "ntto" /\ pc = "select"
    /\ mpc = "senddone"
    /\ mpc' = "done"
    /\ pc' = "return"
    /\ UNCHANGED <<config, call, err, status, input, readErr, n, wpc, wline, wout,
                   qclosed, tclosed, wg, mheld, buf, stdout, stderr>>

\* main returns: the deferred writer.Flush() runs
NttoFlush ==
    /\ Running /\ prog = "ntto" /\ pc = "return"
    /\ stdout' = stdout \o buf
    /\ buf' = <<>>
    /\ pc' = "flushed"
    /\ UNCHANGED <<config, call, err, status, input, readErr, n, wpc, wline, wout,
                   qclosed, tclosed, wg, mpc, mheld, stderr>>

\* the process ends with status 0
NttoExit ==
    /\ Running /\ prog = "ntto" /\ pc = "flushed"
    /\ status' = "exit0"
    /\ UNCHANGED <<config, call, pc, err, input, readErr, n, wpc, wline, wout,
                   qclosed, tclosed, wg, mpc, mheld, buf, stdout, stderr>>

(***************************************************************************)
(* cmd/ntto: Worker and Marshaller                                         *)
(***************************************************************************)
\* the body of the range of Worker up to its send: ParseNTriple, and
\* log.Fatalln or log.Println on an error
NttoWork(w) ==
    LET r == ParseNTriple(input[wline[w]])
        t == [line |-> wline[w], by |-> w, nil |-> r.err,
              s |-> r.s, p |-> r.p, o |-> r.o]
    IN
    /\ Running /\ prog = "ntto" /\ wpc[w] = "proc"
    /\ stderr' = IF r.err THEN stderr \cup {wline[w]} ELSE stderr
    /\ IF r.err /\ Strict
       THEN /\ status' = "exit1"
            /\ UNCHANGED <<wpc, wout>>
       ELSE /\ status' = status
            /\ wpc' = [wpc EXCEPT ![w] = "send"]
            /\ wout' = [wout EXCEPT ![w] = t]
    /\ wline' = [wline EXCEPT ![w] = 0]
    /\ UNCHANGED <<config, call, pc, err, input, readErr, n, qclosed, tclosed,
                   wg, mpc, mheld, buf, stdout>>

\* out <- triple of worker w meets the receive of the range of Marshaller
NttoResult(w) ==
    /\ Running /\ prog = "ntto"
    /\ wpc[w] = "send" /\ mpc = "recv" /\ ~tclosed
    /\ mheld' = wout[w]
    /\ mpc' = "write"
    /\ wpc' = [wpc EXCEPT ![w] = "recv"]
    /\ wout' = [wout EXCEPT ![w] = NoTriple]
    /\ UNCHANGED <<config, call, pc, err, status, input, readErr, n, wline,
                   qclosed, tclosed, wg, buf, stdout, stderr>>

\* the range of worker w over the closed queue ends: the deferred wg.Done()
NttoWorkerEnd(w) ==
    /\ Running /\ prog = "ntto"
    /\ wpc[w] = "recv" /\ qclosed
    /\ wpc' = [wpc EXCEPT ![w] = "done"]
    /\ wg' = wg - 1
    /\ UNCHANGED <<config, call, pc, err, status, input, readErr, n, wline, wout,
                   qclosed, tclosed, mpc, mheld, buf, stdout, stderr>>

\* json.Marshal of a triple; of the nil *Triple it is null, without an error
NttoRecord(t) ==
    [line |-> t.line, by |-> t.by,
     out |-> IF t.nil THEN <<"null">> ELSE <<"json", t.s, t.p, t.o>>]

\* a bufio that writes a record that does not fit through to the output
\* without flushing what it holds
MarshallerWriteThrough ==
    /\ Running /\ prog = "ntto" /\ mpc = "write"
    /\ IF Len(buf) + 1 > BufRecords
       THEN /\ stdout' = Append(stdout, NttoRecord(mheld))
            /\ buf' = buf
       ELSE /\ stdout' = stdout
            /\ buf' = Append(buf, NttoRecord(mheld))
    /\ mpc' = "recv"
    /\ mheld' = NoTriple
    /\ UNCHANGED <<config, call, pc, err, status, input, readErr, n, wpc, wline,
                   wout, qclosed, tclosed, wg, stderr>>

\* writer.Write(b) and the newline: bufio keeps the record, after flushing
\* what it holds when the record does not fit
MarshallerWrite ==
    /\ Running /\ prog = "ntto" /\ mpc = "write"
    /\ IF Len(buf) + 1 > BufRecords
       THEN /\ stdout' = stdout \o buf
            /\ buf' = <<NttoRecord(mheld)>>
       ELSE /\ stdout' = stdout
            /\ buf' = Append(buf, NttoRecord(mheld))
    /\ mpc' = "recv"
    /\ mheld' = NoTriple
    /\ UNCHANGED <<config, call, pc, err, status, input, readErr, n, wpc, wline,
                   wout, qclosed, tclosed, wg, stderr>>

\* the range over the closed results channel ends: done <- true is next
MarshallerEnd ==
    /\ Running /\ prog = "ntto" /\ mpc = "recv" /\ tclosed
    /\ mpc' = "senddone"
    /\ UNCHANGED <<config, call, pc, err, status, input, readErr, n, wpc, wline,
                   wout, qclosed, tclosed, wg, mheld, buf, stdout, stderr>>

(***************************************************************************)
(* The specification of the runs.                                          *)
(***************************************************************************)
\* the steps in which a goroutine starts, ends, or meets another one over a
\* channel, a WaitGroup or the process exit
Communicate ==
    \/ ConvertStart
    \/ ConvertOpen
    \/ ConvertOpenFail
    \/ ConvertRead
    \/ ConvertReadEnd
    \/ ConvertReadFail
    \/ \E w \in Workers : ConvertSend(w)
    \/ \E w \in Workers : ConvertKill(w)
    \/ ConvertClose
    \/ LdjExit
    \/ \E w \in Workers : LdjSend(w)
    \/ LdjWrite
    \/ LdjWriterEnd
    \/ NttoOpen
    \/ NttoOpenFail
    \/ NttoStart
    \/ NttoRead
    \/ NttoReadEnd
    \/ NttoReadFail
    \/ \E w \in Workers : NttoSend(w)
    \/ NttoCloseQueue
    \/ NttoWait
    \/ NttoCloseResults
    \/ NttoTimeout
    \/ NttoDone
    \/ NttoFlush
    \/ NttoExit
    \/ \E w \in Workers : NttoResult(w)
    \/ \E w \in Workers : NttoWorkerEnd(w)
    \/ MarshallerWrite
    \/ MarshallerEnd

\* the steps a worker takes on its own, between receiving a line and sending
\* the result
Compute ==
    \/ \E w \in Workers : LdjWork(w)
    \/ \E w \in Workers : NttoWork(w)

Next == Communicate \/ Compute

Spec == Init /\ [][Next]_vars

(***************************************************************************)
(* applyRules called on its own                                            *)
(***************************************************************************)
ApplyRules ==
    /\ prog = "applyRules"
    /\ ~ret.done
    /\ ret' = [done |-> TRUE, val |-> applyRules(args.s, args.rules)]
    /\ UNCHANGED <<config, pipeline, args, ret2>>

\* applyRules called once more, on the field the first call returned
ApplyRulesAgain ==
    /\ prog = "applyRules"
    /\ ret.done /\ ~ret2.done
    /\ ret2' = [done |-> TRUE, val |-> applyRules(ret.val, args.rules)]
    /\ UNCHANGED <<config, pipeline, args, ret>>

NextRules == ApplyRules \/ ApplyRulesAgain

SpecRules == InitRules /\ [][NextRules]_vars

(***************************************************************************)
(* The parsing functions called on their own.                              *)
(***************************************************************************)
\* the lines a rule text is made of: two rules, a blank line, a line of one
\* space, a # comment, a // comment of two fields, and a line of one field
RuleLineSet ==
    { <<"a", " ", "/">>, <<"b", "\t", "a">>, <<>>, <<" ">>,
      <<"#", "a", " ", "/">>, <<"/", "/", " ", "a">>, <<"a">> }

SeqsFromTo(S, j, k) == UNION {[1..m -> S] : m \in j..k}

RuleTexts == {Join(ls, <<"\n">>) : ls \in SeqsFromTo(RuleLineSet, 1, MaxRuleLines)}

\* the words a triple line is made of: a URI, the first, a middle and the
\* last word of a literal, the terminator, and a last word of a literal with
\* the terminator on it
TripleWords ==
    { <<"<", "a", ">">>, <<"\"", "b">>, <<"d">>, <<"c", "\"">>, <<".">>,
      <<"c", "\"", ".">> }

TripleLines == {Join(ws, <<" ">>) : ws \in SeqsFromTo(TripleWords, 0, MaxWords)}

\* literal objects: plain, with an @ in the text, and each with a language
\* tag after the closing quote
LanguageTags == {<<"e", "n">>, <<"f", "r">>, <<"e", "n", "g">>}

LiteralBodies == {<<"\"", "a", "\"">>, <<"\"", "a", "@", "b", "\"">>}

LiteralSet ==
    LiteralBodies \cup {b \o <<"@">> \o tag : b \in LiteralBodies, tag \in LanguageTags}

\* the filters a caller sets with -l
LanguageSet == {<<"e", "n">>, <<"f", "r">>}

\* the rules a table for PartitionRules is made of
TableRules ==
    { [Prefix |-> <<"/">>, Shortcut |-> <<"a">>],
      [Prefix |-> <<"a">>, Shortcut |-> <<"b">>],
      [Prefix |-> <<"a", "/">>, Shortcut |-> <<"c">>] }

\* the rules a table for Sedify is made of: those, and one whose shortcut is
\* the null token
SedRules == TableRules \cup {[Prefix |-> <<"/", "a">>, Shortcut |-> NullToken]}

\* the names of the input file: none, and one
InputNames == {<<>>, <<"f">>}

\* the terms stripChars is given: IRIs, and literals whose text is plain or
\* holds an @ or a ^^, each alone, with a language tag and with a datatype
TermTexts == {<<"a">>, <<"a", "@", "b">>, <<"a", "^", "^", "b">>}

TermSuffixes == {<<>>, <<"@", "e", "n">>, <<"^", "^", "<", "t", ">">>}

StripTerms ==
    {<<"<", "a", ">">>, <<"<", "a", "@", "b", ">">>}
        \cup {<<"\"">> \o x \o <<"\"">> \o e : x \in TermTexts, e \in TermSuffixes}

\* the objects a filter meets: IRIs without and with an @, a blank node, and
\* the literals
ObjectTerms ==
    {<<"<", "a", ">">>, <<"<", "a", "@", "b", ">">>, <<"_", ":", "b">>}
        \cup LiteralSet

InitFuncs ==
    /\ numWorkers = 0
    /\ ignore = FALSE
    /\ format = "json"
    /\ language = <<>>
    /\ InitPipeline
    /\ ret = NoCall
    /\ ret2 = NoCall
    /\ \/ prog = "ParseRules" /\ args \in [s : RuleTexts]
       \/ prog = "parseRules" /\ args \in [s : RuleTexts]
       \/ prog = "ParseNTriple" /\ args \in [line : TripleLines]
       \/ prog = "Worker" /\ args \in [line : TripleLines]
       \/ prog = "IsLiteralLanguage"
          /\ args \in [s : LiteralSet, language : LanguageSet]
       \/ prog = "isLiteralLanguage"
          /\ args \in [s : LiteralSet, language : LanguageSet]
       \/ prog = "Sedify"
          /\ args \in [rules : SeqsFromTo(SedRules, 0, MaxTable),
                        p : 1..MaxCount, in : InputNames]
       \/ prog = "DumpRules"
          /\ args \in [rules : SeqsFromTo(SedRules, 0, MaxTable)]
       \/ prog = "stripChars" /\ args \in [s : StripTerms]
       \/ prog = "languageSkips"
          /\ args \in [o : ObjectTerms, language : LanguageSet]
       \/ prog = "PartitionRules"
          /\ args \in [rules : SeqsFromTo(TableRules, 0, MaxTable),
                        count : 1..MaxCount]

CallParseRules ==
    /\ prog = "ParseRules"
    /\ ~ret.done
    /\ ret' = [done |-> TRUE, val |-> ParseRules(args.s)]
    /\ UNCHANGED <<config, pipeline, args, ret2>>

CallLdjParseRules ==
    /\ prog = "parseRules"
    /\ ~ret.done
    /\ ret' = [done |-> TRUE, val |-> parseRules(args.s)]
    /\ UNCHANGED <<config, pipeline, args, ret2>>

CallParseNTriple ==
    /\ prog = "ParseNTriple"
    /\ ~ret.done
    /\ ret' = [done |-> TRUE, val |-> ParseNTriple(args.line)]
    /\ UNCHANGED <<config, pipeline, args, ret2>>

\* the worker of nttoldj makes its triple of a line
CallWorker ==
    /\ prog = "Worker"
    /\ ~ret.done
    /\ ret' = [done |-> TRUE, val |-> ldjTriple(args.line)]
    /\ UNCHANGED <<config, pipeline, args, ret2>>

CallIsLiteralLanguage ==
    /\ prog = "IsLiteralLanguage"
    /\ ~ret.done
    /\ ret' = [done |-> TRUE, val |-> IsLiteralLanguage(args.s, args.language)]
    /\ UNCHANGED <<config, pipeline, args, ret2>>

CallLdjIsLiteralLanguage ==
    /\ prog = "isLiteralLanguage"
    /\ ~ret.done
    /\ ret' = [done |-> TRUE, val |-> isLiteralLanguage(args.s, args.language)]
    /\ UNCHANGED <<config, pipeline, args, ret2>>

CallPartitionRules ==
    /\ prog = "PartitionRules"
    /\ ~ret.done
    /\ ret' = [done |-> TRUE, val |-> PartitionRules(args.rules, args.count)]
    /\ UNCHANGED <<config, pipeline, args, ret2>>

CallSedify ==
    /\ prog = "Sedify"
    /\ ~ret.done
    /\ ret' = [done |-> TRUE, val |-> Sedify(args.rules, args.p, args.in)]
    /\ UNCHANGED <<config, pipeline, args, ret2>>

CallDumpRules ==
    /\ prog = "DumpRules"
    /\ ~ret.done
    /\ ret' = [done |-> TRUE, val |-> DumpRules(args.rules)]
    /\ UNCHANGED <<config, pipeline, args, ret2>>

CallStripChars ==
    /\ prog = "stripChars"
    /\ ~ret.done
    /\ ret' = [done |-> TRUE, val |-> stripChars(args.s)]
    /\ UNCHANGED <<config, pipeline, args, ret2>>

\* the language test of the worker of nttoldj on an object
CallLanguageSkips ==
    /\ prog = "languageSkips"
    /\ ~ret.done
    /\ ret' = [done |-> TRUE, val |-> languageSkips(args.o, args.language)]
    /\ UNCHANGED <<config, pipeline, args, ret2>>

NextFuncs ==
    \/ CallParseRules
    \/ CallLdjParseRules
    \/ CallParseNTriple
    \/ CallWorker
    \/ CallIsLiteralLanguage
    \/ CallLdjIsLiteralLanguage
    \/ CallPartitionRules
    \/ CallSedify
    \/ CallDumpRules
    \/ CallStripChars
    \/ CallLanguageSkips

SpecFuncs == InitFuncs /\ [][NextFuncs]_vars

(***************************************************************************)
(* What the claims speak of.                                               *)
(***************************************************************************)
Words(l) == Fields(TrimSpace(l))

CommentLine(l) == HasPrefix(TrimSpace(l), <<"#">>)

\* a non-comment line of three words or more
WellFormedLine(l) == ~CommentLine(l) /\ Len(Words(l)) >= 3

\* a non-comment line of fewer than three words
ShortLine(l) == ~CommentLine(l) /\ Len(Words(l)) < 3

\* a line that is empty after trimming, or begins with #
BlankOrCommentLine(l) == TrimSpace(l) = <<>> \/ CommentLine(l)

\* the records the writer has written, in the order it wrote them
Out == stdout \o buf

\* the positions of seq that hold a record of input line i
RecordsOf(seq, i) == {k \in 1..Len(seq) : seq[k].line = i}

\* the lines a triple was made for and not yet written: held by a worker
\* for its send, or by the writer for its write
Forwarded == {wout[w].line : w \in {v \in Workers : wpc[v] = "send"}}
                 \cup (IF mpc = "write" THEN {mheld.line} ELSE {})

\* a record of a later line stands before a record of an earlier line
Inverted(seq) ==
    \E a, b \in 1..Len(seq) : a < b /\ seq[a].line > seq[b].line

(***************************************************************************)
(* C1: for an input of well-formed, non-comment lines and two or more      *)
(* workers, a run that ends successfully has written one record per input  *)
(* line, none dropped and none duplicated (a record is a function of its   *)
(* line, so this is the multiset of the run with one worker).              *)
(***************************************************************************)
NoLineLostOrDuplicated ==
    (/\ status = "exit0"
     /\ numWorkers >= 2
     /\ \A i \in 1..Len(input) : WellFormedLine(input[i]))
    => /\ Len(stdout) = Len(input)
       /\ \A i \in 1..Len(input) : Cardinality(RecordsOf(stdout, i)) = 1

(***************************************************************************)
(* C2: the output channel is closed only after every worker has stopped:   *)
(* once close(triples) or close(results) was executed no worker holds a    *)
(* line or is blocked in its send, so none sends on the closed channel.    *)
(***************************************************************************)
ClosedOnlyAfterWorkersStopped ==
    tclosed => \A w \in Workers : wpc[w] = "done"

ClosedWithWorkWitness ==
    /\ tclosed
    /\ numWorkers >= 2
    /\ Len(Out) >= 1

(***************************************************************************)
(* C3: when a run ends successfully the writer has written every triple    *)
(* it received: at the exit no received triple is unwritten, and no        *)
(* record is left in the buffer after the final flush.                     *)
(***************************************************************************)
WriterWroteAllAtExit ==
    status = "exit0" => (mpc # "write" /\ buf = <<>>)

(***************************************************************************)
(* C4: with ignore-errors off, once the input has given a non-comment      *)
(* line of fewer than 3 words the run never ends successfully, and in      *)
(* every interleaving the process ends with a non-zero status: whenever no *)
(* goroutine can take a further step, the process has exited with status   *)
(* 1.  Every step moves a goroutine forward over a finite input, so every  *)
(* run comes to such a rest.                                               *)
(***************************************************************************)
\* a worker that holds a line can always take its step; every other step is
\* one of Communicate
CanStep ==
    \/ Running /\ \E w \in Workers : wpc[w] = "proc"
    \/ ENABLED Communicate

\* no goroutine can take a step: the process has exited, or every goroutine
\* left is blocked
AtRest == ~CanStep

StrictShortLineRead ==
    ~ignore /\ \E i \in 1..Len(input) : ShortLine(input[i])

StrictShortLineNeverSucceeds ==
    StrictShortLineRead =>
        /\ status # "exit0"
        /\ AtRest => status = "exit1"

StrictShortLineWitness ==
    /\ ~ignore
    /\ numWorkers >= 2
    /\ Len(input) >= 2
    /\ ShortLine(input[1])
    /\ status = "exit1"

(***************************************************************************)
(* C5: with ignore-errors on, a line of fewer than 3 words produces no     *)
(* output record: nothing is forwarded to the writer for it and nothing    *)
(* is written for it.                                                      *)
(***************************************************************************)
IgnoredShortLineNoRecord ==
    ignore =>
        \A i \in 1..Len(input) :
            ShortLine(input[i]) => (i \notin Forwarded /\ RecordsOf(Out, i) = {})

(***************************************************************************)
(* C6: a line that is empty after trimming, or begins with #, produces no  *)
(* triple and is not an error, with ignore-errors off and on: it is not    *)
(* reported as broken and no triple is made for it.                        *)
(***************************************************************************)
BlankOrCommentSkipped ==
    \A i \in 1..Len(input) :
        BlankOrCommentLine(input[i]) =>
            /\ i \notin stderr
            /\ i \notin Forwarded
            /\ RecordsOf(Out, i) = {}

(***************************************************************************)
(* C7: with exactly one worker, records are written in the order of their  *)
(* input lines.                                                            *)
(***************************************************************************)
OneWorkerKeepsOrder ==
    numWorkers = 1 => ~Inverted(Out)

OneWorkerTwoRecordsWitness ==
    /\ numWorkers = 1
    /\ Len(stdout) >= 2

(***************************************************************************)
(* C8: with two or more workers the order of the output is not that of the *)
(* input: a record of a later line can be written before the record of an  *)
(* earlier line (the witness), and only records of lines that different    *)
(* workers handled ever stand in inverted order.                           *)
(***************************************************************************)
InversionOnlyAcrossWorkers ==
    \A a, b \in 1..Len(Out) :
        (a < b /\ Out[a].line > Out[b].line) => Out[a].by # Out[b].by

InversionWitness ==
    /\ numWorkers >= 2
    /\ Inverted(stdout)

(***************************************************************************)
(* C9: Convert called with a format other than json, xml or tsv returns    *)
(* an error before it starts the writer or any worker and before it reads  *)
(* a line; nothing is written.                                             *)
(***************************************************************************)
UnknownFormatReturnsFirst ==
    (prog = "nttoldj" /\ format \notin {"json", "xml", "tsv"})
    => /\ pc \in {"start", "return"}
       /\ pc = "return" => err = "unknown format"
       /\ status \in {"running", "exit1"}
       /\ mpc = "off"
       /\ \A w \in Workers : wpc[w] = "off"
       /\ input = <<>>
       /\ Out = <<>>

UnknownFormatWitness ==
    /\ prog = "nttoldj"
    /\ format = "nt"
    /\ pc = "return"
    /\ err = "unknown format"
    /\ status = "exit1"

(***************************************************************************)
(* C10: applyRules is order-sensitive and the earlier rule wins: for the   *)
(* table [a -> http://x/y/, b -> http://x/] the field http://x/y/Foo       *)
(* becomes a:Foo, with the two rules swapped it becomes b:y/Foo, and when  *)
(* a specific prefix stands before a generic prefix that it extends, a     *)
(* field with the specific prefix comes back with the specific rule's      *)
(* shortcut in front.                                                      *)
(***************************************************************************)
Returned == prog = "applyRules" /\ ret.done

\* the table lists a specific prefix before a generic prefix that it
\* extends, and the field has the specific prefix
SpecificBeforeGeneric ==
    /\ Returned
    /\ args.rules[1].Prefix # args.rules[2].Prefix
    /\ HasPrefix(args.rules[1].Prefix, args.rules[2].Prefix)
    /\ HasPrefix(args.s, args.rules[1].Prefix)

ScenarioHolds ==
    /\ (Returned /\ args = [s |-> FieldFoo, rules |-> <<RuleXY, RuleX>>])
       => ret.val = <<"a", ":", "F", "o", "o">>
    /\ (Returned /\ args = [s |-> FieldFoo, rules |-> <<RuleX, RuleXY>>])
       => ret.val = <<"b", ":", "y", "/", "F", "o", "o">>

EarlierRuleWins ==
    /\ ScenarioHolds
    /\ SpecificBeforeGeneric
       => HasPrefix(ret.val, args.rules[1].Shortcut \o <<":">>)

\* the abbreviation the specific rule writes does not itself begin like the
\* generic prefix
NotShadowed ==
    LET short == args.rules[1].Shortcut \o <<":">>
        generic == args.rules[2].Prefix
    IN  ~HasPrefix(short, generic) /\ ~HasPrefix(generic, short)

(***************************************************************************)
(* C10, as the code has it: the scenario holds in both orders, and a       *)
(* specific prefix before the generic prefix it extends wins whenever the  *)
(* generic prefix and the specific shortcut followed by ":" are not        *)
(* prefixes of one another: the result is then the field as the specific   *)
(* rule alone rewrites it, with the specific shortcut in front.            *)
(***************************************************************************)
EarlierRuleWinsUnlessShadowed ==
    /\ ScenarioHolds
    /\ (SpecificBeforeGeneric /\ NotShadowed)
       => /\ ret.val = applyRule(args.s, args.rules[1])
          /\ HasPrefix(ret.val, args.rules[1].Shortcut \o <<":">>)

EarlierRuleWinsWitness ==
    /\ SpecificBeforeGeneric
    /\ NotShadowed
    /\ args.s \in FieldSet
    /\ Len(args.s) > Len(args.rules[1].Prefix)
    /\ HasPrefix(ret.val, args.rules[1].Shortcut \o <<":">>)

(***************************************************************************)
(* C11: applyRules(field, rules) is the left-to-right fold over the table  *)
(* in which a rule whose prefix is a prefix of the current string replaces *)
(* every occurrence of that prefix in it by shortcut + ":" and any other   *)
(* rule leaves the string unchanged; a field that no rule matches comes    *)
(* back unchanged.                                                         *)
(***************************************************************************)
\* s read from the left, every occurrence of old met on the way replaced
RECURSIVE EveryOccurrenceReplaced(_, _, _)
EveryOccurrenceReplaced(s, old, new) ==
    IF s = <<>> THEN <<>>
    ELSE IF HasPrefix(s, old)
         THEN new \o EveryOccurrenceReplaced(Drop(s, Len(old)), old, new)
         ELSE <<s[1]>> \o EveryOccurrenceReplaced(Drop(s, 1), old, new)

RuleStep(s, rule) ==
    IF HasPrefix(s, rule.Prefix)
    THEN EveryOccurrenceReplaced(s, rule.Prefix, rule.Shortcut \o <<":">>)
    ELSE s

RECURSIVE FoldLeft(_, _, _)
FoldLeft(s, rules, i) ==
    IF i > Len(rules) THEN s ELSE FoldLeft(RuleStep(s, rules[i]), rules, i + 1)

NoRuleMatches ==
    \A i \in 1..Len(args.rules) : ~HasPrefix(args.s, args.rules[i].Prefix)

ApplyRulesIsFold ==
    Returned =>
        /\ ret.val = FoldLeft(args.s, args.rules, 1)
        /\ NoRuleMatches => ret.val = args.s

\* both rules rewrite, the second one what the first one wrote
ApplyRulesIsFoldWitness ==
    /\ Returned
    /\ HasPrefix(args.s, args.rules[1].Prefix)
    /\ HasPrefix(RuleStep(args.s, args.rules[1]), args.rules[2].Prefix)
    /\ Len(args.s) >= 3
    /\ ret.val # RuleStep(args.s, args.rules[1])

(***************************************************************************)
(* C12: abbreviation is idempotent: for every field and every rule table   *)
(* in which no rule's shortcut collides with another rule's prefix text,   *)
(* applyRules applied to its own result returns that result.               *)
(***************************************************************************)
ReturnedAgain == prog = "applyRules" /\ ret2.done

\* one of the two texts begins with the other
Comparable(x, y) == HasPrefix(x, y) \/ HasPrefix(y, x)

\* the shortcut of rule i begins like the prefix of another rule j, or the
\* other way round
ShortcutCollides ==
    \E i, j \in 1..Len(args.rules) :
        /\ i # j
        /\ Comparable(args.rules[i].Shortcut, args.rules[j].Prefix)

IdempotentUnlessCollision ==
    (ReturnedAgain /\ ~ShortcutCollides) => ret2.val = ret.val

\* what some rule writes, its shortcut and the ":", begins like the prefix
\* of a rule of the table, that rule itself included, or the other way round
AbbreviationCollides ==
    \E i, j \in 1..Len(args.rules) :
        Comparable(args.rules[i].Shortcut \o <<":">>, args.rules[j].Prefix)

(***************************************************************************)
(* C12, as the code has it: applyRules applied to its own result returns   *)
(* that result whenever no rule's shortcut followed by ":" begins like the *)
(* prefix of any rule of the table, the rule's own prefix included.        *)
(***************************************************************************)
IdempotentUnlessAnyCollision ==
    (ReturnedAgain /\ ~AbbreviationCollides) => ret2.val = ret.val

IdempotentWitness ==
    /\ ReturnedAgain
    /\ ~AbbreviationCollides
    /\ args.rules[1].Shortcut = <<"a">>
    /\ HasPrefix(args.rules[2].Prefix, <<"a">>)
    /\ ret.val # args.s
    /\ ret2.val = ret.val

(***************************************************************************)
(* C13: a rule whose shortcut is the null token deletes the prefix it      *)
(* matches and inserts no shortcut and no ":": with the null rule for      *)
(* http://x/ the field http://x/Foo becomes Foo.                           *)
(***************************************************************************)
NullRuleFirst ==
    /\ Returned
    /\ args.rules[1].Shortcut = NullToken
    /\ HasPrefix(args.s, args.rules[1].Prefix)

NullRuleDeletesPrefix ==
    /\ NullRuleFirst => ~Contains(ret.val, NullToken)
    /\ (Returned /\ args = [s |-> FieldXFoo, rules |-> <<RuleNull, RuleXY>>])
       => ret.val = <<"F", "o", "o">>

(***************************************************************************)
(* C14: a rule text in which valid rule lines are interleaved with blank   *)
(* lines and with comment lines that start with # or // parses to exactly  *)
(* the valid rules, in file order, each with the first field for its       *)
(* shortcut and the second for its prefix, and no rule is made from a      *)
(* comment line.                                                           *)
(***************************************************************************)
ParsedRules == prog \in {"ParseRules", "parseRules"} /\ ret.done

TextLines == Split(args.s, <<"\n">>)

BlankLine(l) == TrimSpace(l) = <<>>

RuleComment(l) ==
    HasPrefix(TrimSpace(l), <<"#">>) \/ HasPrefix(TrimSpace(l), <<"/", "/">>)

RuleLine(l) == ~BlankLine(l) /\ ~RuleComment(l) /\ Len(Words(l)) >= 2

BrokenRuleLine(l) == ~BlankLine(l) /\ ~RuleComment(l) /\ Len(Words(l)) < 2

RuleOf(l) == [Prefix |-> Words(l)[2], Shortcut |-> Words(l)[1]]

\* the rules of the rule lines among the first k lines, in file order
RECURSIVE RulesUpTo(_, _)
RulesUpTo(lines, k) ==
    IF k = 0 THEN <<>>
    ELSE IF RuleLine(lines[k])
         THEN Append(RulesUpTo(lines, k - 1), RuleOf(lines[k]))
         ELSE RulesUpTo(lines, k - 1)

ExactlyTheValidRules ==
    (/\ ParsedRules
     /\ \A i \in 1..Len(TextLines) : ~BrokenRuleLine(TextLines[i]))
    => /\ ret.val.err.nil
       /\ ret.val.rules = RulesUpTo(TextLines, Len(TextLines))

(***************************************************************************)
(* C15: ParseRules returns an error that carries the text of the offending *)
(* line when a line that is neither blank nor a comment has fewer than 2   *)
(* fields, and it stops there: the rules returned are those of the lines   *)
(* before it, none of that line and none of a later line.                  *)
(***************************************************************************)
FirstBroken ==
    LET broken == {i \in 1..Len(TextLines) : BrokenRuleLine(TextLines[i])}
    IN  IF broken = {} THEN 0
        ELSE CHOOSE i \in broken : \A j \in broken : i <= j

ErrorStopsAtBrokenLine ==
    (prog = "ParseRules" /\ ret.done) =>
        IF FirstBroken = 0 THEN ret.val.err.nil
        ELSE /\ ~ret.val.err.nil
             /\ ret.val.err.line = TrimSpace(TextLines[FirstBroken])
             /\ ret.val.rules = RulesUpTo(TextLines, FirstBroken - 1)

\* a rule line, then the broken line, then a rule line
ErrorStopsWitness ==
    /\ prog = "ParseRules" /\ ret.done
    /\ Len(TextLines) = 3
    /\ FirstBroken = 2
    /\ RuleLine(TextLines[1]) /\ RuleLine(TextLines[3])
    /\ Len(ret.val.rules) = 1

(***************************************************************************)
(* C16: for a line of more than 4 words the parser returns the first word  *)
(* for the subject, the second for the predicate, and for the object all   *)
(* remaining words joined by one space with only a final bare "."          *)
(* terminator word removed, no other word dropped, each field then         *)
(* stripped of the <, > or " around it.                                    *)
(***************************************************************************)
ParsedLine == prog \in {"ParseNTriple", "Worker"} /\ ret.done

LineWords == Words(args.line)

\* the words of an object: one URI, or a literal from its opening word to
\* its closing word
ObjectShape(ws) ==
    \/ ws = << <<"<", "a", ">">> >>
    \/ /\ Len(ws) >= 2
       /\ ws[1] = <<"\"", "b">>
       /\ ws[Len(ws)] = <<"c", "\"">>
       /\ \A i \in 2..(Len(ws) - 1) : ws[i] = <<"d">>

\* a URI for the subject, a URI for the predicate, then the words given
TripleShape(ws) ==
    /\ Len(ws) >= 3
    /\ ws[1] = <<"<", "a", ">">>
    /\ ws[2] = <<"<", "a", ">">>
    /\ ObjectShape(SubSeq(ws, 3, Len(ws)))

ButLast(ws) == SubSeq(ws, 1, Len(ws) - 1)

\* subject, predicate, object and the " ." terminator
TerminatedLine ==
    /\ Len(LineWords) >= 4
    /\ LineWords[Len(LineWords)] = <<".">>
    /\ TripleShape(ButLast(LineWords))

\* subject, predicate and object, the "." right after the closing quote
DotAttachedLine ==
    /\ Len(LineWords) >= 4
    /\ LineWords[Len(LineWords)] = <<"c", "\"", ".">>
    /\ TripleShape(Append(ButLast(LineWords), <<"c", "\"">>))

\* a triple line, with the terminator, with the "." attached, or with none
TripleLine == TerminatedLine \/ DotAttachedLine \/ TripleShape(LineWords)

\* the words after the predicate, without a bare "." at the end
ObjectWords ==
    IF LineWords[Len(LineWords)] = <<".">>
    THEN SubSeq(LineWords, 3, Len(LineWords) - 1)
    ELSE SubSeq(LineWords, 3, Len(LineWords))

Stripped(w) == Trim(w, {"<", ">", "\""})

ObjectKeepsEveryWord ==
    (ParsedLine /\ TripleLine /\ Len(LineWords) > 4)
    => /\ ret.val.s = Stripped(LineWords[1])
       /\ ret.val.p = Stripped(LineWords[2])
       /\ ret.val.o = Stripped(Join(ObjectWords, <<" ">>))

(***************************************************************************)
(* C17: the trailing period is optional: for a subject, a predicate and an *)
(* object of one or more words, the parser returns the same triple for the *)
(* line that ends with the " ." terminator and for the same line without   *)
(* it.                                                                     *)
(***************************************************************************)
Unterminated == Join(ButLast(LineWords), <<" ">>)

TerminatorOptional ==
    (ParsedLine /\ TerminatedLine)
    => /\ prog = "ParseNTriple" => ret.val = ParseNTriple(Unterminated)
       /\ prog = "Worker" => ret.val = ldjTriple(Unterminated)

(***************************************************************************)
(* C18: ParseNTriple returns an error and no triple exactly when the       *)
(* trimmed line has fewer than 3 whitespace-separated words; for 3 words   *)
(* or more it returns a triple and no error.                               *)
(***************************************************************************)
\* where a word begins: a character that is no space, at the start of the
\* line or after a space
WordStarts(l) ==
    {i \in 1..Len(l) : ~IsSpace(l[i]) /\ (i = 1 \/ IsSpace(l[i - 1]))}

ErrorIffFewerThanThreeWords ==
    (prog = "ParseNTriple" /\ ret.done) =>
        /\ ret.val.err <=> Cardinality(WordStarts(args.line)) < 3
        /\ ret.val.err => (ret.val.s = <<>> /\ ret.val.p = <<>> /\ ret.val.o = <<>>)
        /\ ~ret.val.err => ret.val.s = Stripped(LineWords[1])

\* a line of exactly three words is parsed
ThreeWordsWitness ==
    /\ prog = "ParseNTriple" /\ ret.done
    /\ Cardinality(WordStarts(args.line)) = 3
    /\ ~ret.val.err
    /\ ret.val.o # <<>>

(***************************************************************************)
(* C19: with the language filter L, a literal object is kept if and only   *)
(* if it carries no @lang tag at all or carries exactly the tag L; a       *)
(* literal with any other tag is dropped, and its triple with it.          *)
(***************************************************************************)
FilterAsked == prog \in {"IsLiteralLanguage", "isLiteralLanguage"} /\ ret.done

\* the literal ends with its closing quote: no tag follows
Untagged(s) == s[Len(s)] = "\""

\* the closing quote of the literal is followed by @ and the tag, no more
Tagged(s, tag) == Len(s) > Len(tag) + 2 /\ HasSuffix(s, <<"\"", "@">> \o tag)

KeptIffNoTagOrExactTag ==
    FilterAsked => (ret.val <=> (Untagged(args.s) \/ Tagged(args.s, args.language)))

(***************************************************************************)
(* C20: PartitionRules(rules, count) with count >= 1 returns               *)
(* n = min(len(rules), count) partitions, the rule at index i in partition *)
(* i mod n: every rule is in exactly one partition, no partition is empty, *)
(* and the rules of a partition keep their table order.                    *)
(***************************************************************************)
Partitioned == prog = "PartitionRules" /\ ret.done

PartitionCount == IF Len(args.rules) <= args.count THEN Len(args.rules) ELSE args.count

\* the indices of the table, counted from 0, that fall into partition p,
\* counted from 0 too
IndicesOf(p) == {i \in 0..(Len(args.rules) - 1) : i % PartitionCount = p}

RoundRobinPartitions ==
    Partitioned =>
        /\ Len(ret.val) = PartitionCount
        /\ \A p \in 1..PartitionCount :
              /\ ret.val[p] # <<>>
              /\ Len(ret.val[p]) = Cardinality(IndicesOf(p - 1))
              /\ \A k \in 1..Len(ret.val[p]) :
                    ret.val[p][k] = args.rules[(p - 1) + (k - 1) * PartitionCount + 1]

\* three rules in two partitions: the first and the third rule, and the
\* second
RoundRobinWitness ==
    /\ Partitioned
    /\ Len(args.rules) = 3
    /\ Cardinality({args.rules[i] : i \in 1..3}) = 3
    /\ args.count = 2
    /\ Len(ret.val) = 2
    /\ ret.val[1] = <<args.rules[1], args.rules[3]>>
    /\ ret.val[2] = <<args.rules[2]>>

(***************************************************************************)
(* C21: Sedify builds one stage per partition of PartitionRules(rules, p), *)
(* the stages joined by " | " in partition order; a stage holds one        *)
(* command s@prefix@shortcut:@g per rule of its partition, in the order of *)
(* the partition; the redirect < 'in' is on the first stage only, and only *)
(* when in is not empty.  SedifyAsStated says it of every rule;            *)
(* SedifyStages excepts the rule whose shortcut is the null token <NULL>,  *)
(* whose command is s@prefix@@g.                                           *)
(***************************************************************************)
Sedified == prog = "Sedify" /\ ret.done

StageCount == Min(Len(args.rules), args.p)

\* the stages of the result, the text between the " | "
StageTexts ==
    IF ret.val = <<>> THEN <<>> ELSE Split(ret.val, <<" ", "|", " ">>)

\* the rules of stage i, counted from 1: those at the table indices, counted
\* from 0, that are i - 1 modulo the number of stages, in table order
RulesOfStage(i) ==
    [k \in 1..Cardinality({j \in 0..(Len(args.rules) - 1) :
                              j % StageCount = i - 1}) |->
        args.rules[(i - 1) + (k - 1) * StageCount + 1]]

Substitution(rule) ==
    <<"s", "@">> \o rule.Prefix \o <<"@">> \o rule.Shortcut \o <<":", "@", "g">>

Deletion(rule) == <<"s", "@">> \o rule.Prefix \o <<"@", "@", "g">>

Redirect(i) ==
    IF i = 1 /\ args.in # <<>>
    THEN <<" ", "<", " ", "'">> \o args.in \o <<"'">>
    ELSE <<>>

\* the text of stage i when the command of a rule is Command(rule)
StageOf(i, Command(_)) ==
    LET rules == RulesOfStage(i)
    IN  PerlStage
            \o Join([k \in 1..Len(rules) |-> Command(rules[k])], <<";", " ">>)
            \o <<"'">> \o Redirect(i)

CommandOrDeletion(rule) ==
    IF rule.Shortcut = NullToken THEN Deletion(rule) ELSE Substitution(rule)

SedifyAsStated ==
    Sedified =>
        /\ Len(StageTexts) = StageCount
        /\ \A i \in 1..StageCount : StageTexts[i] = StageOf(i, Substitution)

SedifyStages ==
    Sedified =>
        /\ Len(StageTexts) = StageCount
        /\ \A i \in 1..StageCount :
              StageTexts[i] = StageOf(i, CommandOrDeletion)

\* three rules, none with the null token, in two stages, with an input file:
\* the first stage holds the first and the third rule and the redirect
SedifyWitness ==
    /\ Sedified
    /\ Len(args.rules) = 3
    /\ \A k \in 1..3 : args.rules[k].Shortcut # NullToken
    /\ args.p = 2
    /\ args.in # <<>>
    /\ Len(StageTexts) = 2
    /\ StageTexts[1] = PerlStage \o Substitution(args.rules[1]) \o <<";", " ">>
                           \o Substitution(args.rules[3])
                           \o <<"'", " ", "<", " ", "'">> \o args.in \o <<"'">>
    /\ StageTexts[2] = PerlStage \o Substitution(args.rules[2]) \o <<"'">>

(***************************************************************************)
(* C22: DumpRules renders one line shortcut<TAB>prefix per rule, the lines *)
(* in increasing byte order and joined by newlines, so its result is the   *)
(* same for every permutation of the rule list.                            *)
(***************************************************************************)
Dumped == prog = "DumpRules" /\ ret.done

DumpedLines == IF ret.val = <<>> THEN <<>> ELSE Split(ret.val, <<"\n">>)

\* the rearrangements of the positions 1..n
Rearrangements(k) ==
    {f \in [1..k -> 1..k] : \A i, j \in 1..k : f[i] = f[j] => i = j}

Permuted(rules, f) == [i \in 1..Len(rules) |-> rules[f[i]]]

DumpIsSortedAndOrderFree ==
    Dumped =>
        /\ Len(DumpedLines) = Len(args.rules)
        /\ \E f \in Rearrangements(Len(args.rules)) :
              \A i \in 1..Len(args.rules) :
                 DumpedLines[i] = args.rules[f[i]].Shortcut \o <<"\t">>
                                      \o args.rules[f[i]].Prefix
        /\ \A i \in 1..(Len(DumpedLines) - 1) :
              ~StringLess(DumpedLines[i + 1], DumpedLines[i])
        /\ \A f \in Rearrangements(Len(args.rules)) :
              DumpRules(Permuted(args.rules, f)) = ret.val

\* three different rules given in decreasing order: the dump reverses them
DumpWitness ==
    /\ Dumped
    /\ Len(args.rules) = 3
    /\ Len(DumpedLines) = 3
    /\ \A i \in 1..3 :
          DumpedLines[i] = args.rules[4 - i].Shortcut \o <<"\t">>
                               \o args.rules[4 - i].Prefix
    /\ StringLess(DumpedLines[1], DumpedLines[2])
    /\ StringLess(DumpedLines[2], DumpedLines[3])

(***************************************************************************)
(* C23: when a parse error ends a strict run, every record the writer      *)
(* wrote before it is in the output: none of them is still held back in    *)
(* the writer's buffer when the process is gone.                           *)
(***************************************************************************)
StrictParseFailure == Strict /\ status = "exit1" /\ stderr # {}

WrittenSurvivesFailure ==
    StrictParseFailure => \A k \in 1..Len(Out) : k <= Len(stdout)

(***************************************************************************)
(* C24: an I/O error on the input is fatal: a run in which the input could *)
(* not be opened, or in which a read failed with an error that is not the  *)
(* end of the input, never ends with the status of success.                *)
(***************************************************************************)
InputFailed == err = "open" \/ readErr

InputErrorIsFatal == InputFailed => status # "exit0"

(***************************************************************************)
(* C25: for every input and every number of workers from 1 on, a run       *)
(* without a fatal error ends and never deadlocks: whenever no goroutine   *)
(* can take a step the process has exited; the line the reader holds       *)
(* leaves it only into a worker that was waiting for one; and at a         *)
(* successful end every worker has stopped on its one stop signal, a nil   *)
(* of the numWorkers nils of Convert or the closed queue of ntto.          *)
(***************************************************************************)
NoDeadlock == AtRest => status # "running"

WorkersStoppedAtEnd ==
    status = "exit0" =>
        /\ \A w \in Workers : wpc[w] = "done"
        /\ pc \in {"return", "flushed"}
        /\ prog = "nttoldj" => n = numWorkers
        /\ prog = "ntto" => qclosed /\ wg = 0

\* the reader gets rid of its line by handing it to a worker, and reads the
\* next line or stops reading only when it holds none
LineHandedToWorker ==
    /\ pc = "send" /\ pc' # "send" =>
          /\ pc' = "read"
          /\ \E w \in Workers :
                /\ wpc[w] = "recv" /\ wpc'[w] = "proc"
                /\ wline'[w] = Len(input)
    /\ input' # input => pc = "read" /\ pc' = "send"

\* a stop signal reaches a worker that is waiting for a line, once
OneStopSignalEach ==
    \A w \in Workers :
        wpc[w] # "done" /\ wpc'[w] = "done" =>
            /\ wpc[w] = "recv"
            /\ prog = "nttoldj" => n' = n + 1 /\ n' <= numWorkers
            /\ prog = "ntto" => qclosed /\ wg' = wg - 1

TerminatesWithoutDeadlock ==
    /\ [](NoDeadlock /\ WorkersStoppedAtEnd)
    /\ [][LineHandedToWorker /\ OneStopSignalEach]_vars

\* a successful end of a run of two workers over two lines
TerminatesWitness ==
    /\ status = "exit0"
    /\ numWorkers = 2
    /\ Len(input) = 2
    /\ \A w \in Workers : wpc[w] = "done"

(***************************************************************************)
(* C26: backpressure.  While the process runs, the lines taken from the    *)
(* input whose record is due and not yet written are at most               *)
(* numWorkers + 2: each of them is the line the reader holds for its send, *)
(* a line a worker holds, or the line the writer holds for its write.      *)
(***************************************************************************)
ReaderHolds == IF pc = "send" THEN {Len(input)} ELSE {}

WorkersHold ==
    {wline[w] : w \in {v \in Workers : wpc[v] = "proc"}}
        \cup {wout[w].line : w \in {v \in Workers : wpc[v] = "send"}}

WriterHolds == IF mpc = "write" THEN {mheld.line} ELSE {}

\* the lines for which a worker makes no triple: the comments of nttoldj
NoRecordDue == {i \in 1..Len(input) : prog = "nttoldj" /\ CommentLine(input[i])}

Unwritten == {i \in 1..Len(input) : RecordsOf(Out, i) = {}} \ NoRecordDue

BackpressureBound ==
    Running =>
        /\ Unwritten \subseteq (ReaderHolds \cup WorkersHold \cup WriterHolds)
        /\ Cardinality(ReaderHolds) <= 1
        /\ Cardinality(WorkersHold) <= numWorkers
        /\ Cardinality(WriterHolds) <= 1
        /\ Cardinality(Unwritten) <= numWorkers + 2

\* the bound is met: with one worker, three lines are taken and unwritten,
\* one with the writer, one with the worker and one with the reader
BackpressureWitness ==
    /\ Running
    /\ numWorkers = 1
    /\ Cardinality(Unwritten) = numWorkers + 2
    /\ WriterHolds = {1}
    /\ WorkersHold = {2}
    /\ ReaderHolds = {3}

(***************************************************************************)
(* C27: a run goes through the phases INIT (0), STREAMING (1), DRAINING    *)
(* (2) and DONE (3) in that order and never backwards.  No stop signal (a  *)
(* nil of Convert, the close of the queue of ntto) is sent while the       *)
(* reader is still in its read loop; no line is handed to a worker once a  *)
(* stop signal was sent; the output channel is closed only after every     *)
(* worker got its stop signal.                                             *)
(***************************************************************************)
Phase ==
    CASE pc \in {"start", "open", "go"} -> 0
      [] pc \in {"read", "send"} -> 1
      [] pc \in {"kill", "closeq", "wait", "closeres"} -> 2
      [] OTHER -> 3

StopSent == n > 0 \/ qclosed

AllStopsDelivered ==
    /\ \A w \in Workers : wpc[w] = "done"
    /\ prog = "nttoldj" => n = numWorkers
    /\ prog = "ntto" => qclosed /\ wg = 0

PhaseOrder ==
    /\ StopSent => Phase >= 2
    /\ tclosed => Phase = 3 /\ AllStopsDelivered
    /\ Phase = 3 /\ err = "nil" => tclosed

NeverBackwards ==
    /\ Phase' >= Phase
    /\ StopSent => \A w \in Workers : ~(wpc[w] = "recv" /\ wpc'[w] = "proc")
    /\ StopSent => StopSent'
    /\ tclosed => tclosed'

PhasesInOrder == []PhaseOrder /\ [][NeverBackwards]_vars

\* a run of ntto with two workers and two lines or more that is DONE
PhasesWitness ==
    /\ prog = "ntto"
    /\ numWorkers = 2
    /\ Len(input) >= 2
    /\ tclosed
    /\ Phase = 3
    /\ StopSent

(***************************************************************************)
(* C28: the pipeline Sedify builds applies the rules in the order of the   *)
(* table, for every number of partitions p: the commands, read stage after *)
(* stage and within a stage from left to right, are those of the rules in  *)
(* table order, so the command of rule i stands before that of rule j      *)
(* whenever i precedes j in the table.                                     *)
(***************************************************************************)
\* the commands of stage i: what stands between the quotes, split at "; "
CommandsOfStage(i) ==
    LET rest == Drop(StageTexts[i], Len(PerlStage))
    IN  Split(Take(rest, Index(rest, <<"'">>) - 1), <<";", " ">>)

\* the commands of the stages 1..k in the order a line meets them
RECURSIVE CommandsUpTo(_)
CommandsUpTo(k) ==
    IF k = 0 THEN <<>> ELSE CommandsUpTo(k - 1) \o CommandsOfStage(k)

SedifyKeepsTableOrder ==
    Sedified =>
        CommandsUpTo(Len(StageTexts))
            = [k \in 1..Len(args.rules) |-> CommandOrDeletion(args.rules[k])]

(***************************************************************************)
(* C29: stripChars removes the delimiters only.  Of an IRI it returns what *)
(* stands between < and >; of a literal it returns what stands between the *)
(* opening quote and the closing quote, whatever characters that is, and   *)
(* nothing of a language tag or a datatype after the closing quote.        *)
(***************************************************************************)
StripCalled == prog = "stripChars" /\ ret.done

\* the position of the closing quote of a literal: its last quote
ClosingQuote(s) ==
    CHOOSE k \in 1..Len(s) :
        s[k] = "\"" /\ \A j \in (k + 1)..Len(s) : s[j] # "\""

TextOf(s) ==
    IF s[1] = "<" THEN SubSeq(s, 2, Len(s) - 1)
    ELSE SubSeq(s, 2, ClosingQuote(s) - 1)

StripKeepsText == StripCalled => ret.val = TextOf(args.s)

(***************************************************************************)
(* C30: with a language filter set, a triple whose object is not a         *)
(* literal, an IRI or a blank node, is never skipped by the filter.        *)
(***************************************************************************)
FilterApplied == prog = "languageSkips" /\ ret.done

\* an object that does not begin with a quote: an IRI or a blank node
NotALiteral(o) == o[1] # "\""

NonLiteralNeverSkipped ==
    (FilterApplied /\ NotALiteral(args.o)) => ~ret.val

=============================================================================
